---- MODULE Spec2Model ----
(***************************************************************************)
(* Model of the Gridly MCP server (src/src/index.ts): the zod validation   *)
(* schemas, the remote call functions, the list-tools catalog and the      *)
(* call-tool dispatcher, together with the start-up of the process.        *)
(***************************************************************************)
EXTENDS Integers, Sequences, FiniteSets, TLC

VARIABLES
    env,        \* process.env.GRIDLY_API_KEY as the process was started
    phase,      \* "load" | "crashed" | "starting" | "serving" | "exited"
    inv,        \* the call-tool invocations, one record per slot
    listed,     \* the tools array of the last list-tools response (<<>> before)
    calls,      \* number of list-tools / call-tool requests handled so far
    fetches,    \* number of outbound HTTP requests issued so far
    noted       \* what an observer of the session has written down (history)

vars == <<env, phase, inv, listed, calls, fetches, noted>>

(***************************************************************************)
(* Bounds of the model.                                                    *)
(***************************************************************************)
MaxCalls == 2

(***************************************************************************)
(* JSON values.  A value is a record tagged with the JavaScript type;      *)
(* numbers are carried by their Number.prototype.toString() text, arrays   *)
(* as sequences, objects as sequences of <<key, value>> in insertion order.*)
(***************************************************************************)
Undef == [k |-> "undefined", v |-> ""]
Null == [k |-> "null", v |-> "null"]
Str(s) == [k |-> "string", v |-> s]
Num(n) == [k |-> "number", v |-> n]
Bool(b) == [k |-> "boolean", v |-> b]
Arr(s) == [k |-> "array", v |-> s]
Obj(s) == [k |-> "object", v |-> s]

Range(s) == {s[i] : i \in 1..Len(s)}

HasKey(o, key) == \E i \in 1..Len(o.v) : o.v[i][1] = key

\* o[key] of JavaScript: undefined when the key is not there
Get(o, key) ==
    IF HasKey(o, key)
    THEN (o.v[CHOOSE i \in 1..Len(o.v) : o.v[i][1] = key])[2]
    ELSE Undef

RECURSIVE Flatten(_)
Flatten(ss) == IF ss = <<>> THEN <<>> ELSE Head(ss) \o Flatten(Tail(ss))

RECURSIVE Join(_, _)
Join(ss, sep) ==
    IF ss = <<>> THEN <<>>
    ELSE IF Len(ss) = 1 THEN ss[1]
    ELSE ss[1] \o sep \o Join(Tail(ss), sep)

\* an object literal / destructured result: members that are undefined stay
\* in the object and are left out when it is serialised
Defined(pairs) == SelectSeq(pairs, LAMBDA p : p[2] # Undef)

(***************************************************************************)
(* JSON.stringify(value): the text as a sequence of tokens, a string being *)
(* the three tokens quote, content, quote.                                 *)
(***************************************************************************)
Q == "\""

RECURSIVE Stringify(_)
Stringify(x) ==
    CASE x.k = "string" -> <<Q, x.v, Q>>
      [] x.k = "number" -> <<x.v>>
      [] x.k = "boolean" -> <<x.v>>
      [] x.k = "null" -> <<"null">>
      [] x.k = "array" ->
            <<"[">> \o
            Join([i \in 1..Len(x.v) |->
                    IF x.v[i] = Undef THEN <<"null">> ELSE Stringify(x.v[i])],
                 <<",">>) \o
            <<"]">>
      [] x.k = "object" ->
            LET ps == Defined(x.v) IN
            <<"{">> \o
            Join([i \in 1..Len(ps) |->
                    <<Q, ps[i][1], Q, ":">> \o Stringify(ps[i][2])],
                 <<",">>) \o
            <<"}">>

Indent(n) == [i \in 1..n |-> "  "]

\* JSON.stringify(value, null, 2)
RECURSIVE StringifyPretty(_, _)
StringifyPretty(x, depth) ==
    CASE x.k = "string" -> <<Q, x.v, Q>>
      [] x.k = "number" -> <<x.v>>
      [] x.k = "boolean" -> <<x.v>>
      [] x.k = "null" -> <<"null">>
      [] x.k = "array" ->
            IF x.v = <<>> THEN <<"[", "]">>
            ELSE <<"[", "\n">> \o
                 Join([i \in 1..Len(x.v) |->
                         Indent(depth + 1) \o
                         (IF x.v[i] = Undef THEN <<"null">>
                          ELSE StringifyPretty(x.v[i], depth + 1))],
                      <<",", "\n">>) \o
                 <<"\n">> \o Indent(depth) \o <<"]">>
      [] x.k = "object" ->
            LET ps == Defined(x.v) IN
            IF ps = <<>> THEN <<"{", "}">>
            ELSE <<"{", "\n">> \o
                 Join([i \in 1..Len(ps) |->
                         Indent(depth + 1) \o <<Q, ps[i][1], Q, ":", " ">> \o
                         StringifyPretty(ps[i][2], depth + 1)],
                      <<",", "\n">>) \o
                 <<"\n">> \o Indent(depth) \o <<"}">>

(***************************************************************************)
(* zod.  A schema is a record tagged with the zod type; an object schema   *)
(* holds its shape as a sequence of <<key, schema>> in declaration order.  *)
(***************************************************************************)
ZString == [t |-> "string"]
ZNumber == [t |-> "number"]
ZBoolean == [t |-> "boolean"]
ZAny == [t |-> "any"]
ZEnum(values) == [t |-> "enum", values |-> values]
ZArray(elem) == [t |-> "array", elem |-> elem]
ZRecord(val) == [t |-> "record", val |-> val]
ZObject(shape) == [t |-> "object", shape |-> shape]
ZOptional(inner) == [t |-> "optional", inner |-> inner]

\* schema.shape, schema.merge(other), schema.partial()
Shape(s) == s.shape
Merge(a, b) ==
    ZObject(SelectSeq(a.shape, LAMBDA p : \A i \in 1..Len(b.shape) : b.shape[i][1] # p[1])
            \o b.shape)
PartialKeepsRequired(s) == s

Partial(s) ==
    ZObject([i \in 1..Len(s.shape) |-> <<s.shape[i][1], ZOptional(s.shape[i][2])>>])

\* one ZodIssue, with the members in the order JSON.stringify writes them
TypeIssue(expected, x, path) ==
    Obj(<< <<"code", Str("invalid_type")>>,
           <<"expected", Str(expected)>>,
           <<"received", Str(x.k)>>,
           <<"path", Arr(path)>>,
           <<"message", Str(IF x.k = "undefined" THEN "Required"
                            ELSE "Expected " \o expected \o ", received " \o x.k)>> >>)

EnumIssue(values, x, path) ==
    Obj(<< <<"received", x>>,
           <<"code", Str("invalid_enum_value")>>,
           <<"options", Arr([i \in 1..Len(values) |-> Str(values[i])])>>,
           <<"path", Arr(path)>>,
           <<"message", Str("Invalid enum value, received '" \o x.v \o "'")>> >>)

\* the result of schema._parse: the issues raised, in order, and the output
ParseOk(out) == [issues |-> <<>>, out |-> out]
ParseFail(issues) == [issues |-> issues, out |-> Undef]

RECURSIVE Parse(_, _, _)
Parse(s, x, path) ==
    CASE s.t = "any" -> ParseOk(x)
      [] s.t = "optional" ->
            IF x = Undef THEN ParseOk(Undef) ELSE Parse(s.inner, x, path)
      [] s.t \in {"string", "number", "boolean"} ->
            IF x.k = s.t THEN ParseOk(x)
            ELSE ParseFail(<<TypeIssue(s.t, x, path)>>)
      [] s.t = "enum" ->
            IF x.k # "string"
            THEN ParseFail(<<TypeIssue("enum", x, path)>>)
            ELSE IF x.v \notin Range(s.values)
            THEN ParseFail(<<EnumIssue(s.values, x, path)>>)
            ELSE ParseOk(x)
      [] s.t = "array" ->
            IF x.k # "array" THEN ParseFail(<<TypeIssue("array", x, path)>>)
            ELSE LET rs == [i \in 1..Len(x.v) |->
                              Parse(s.elem, x.v[i], Append(path, Num(ToString(i - 1))))]
                     is == Flatten([i \in 1..Len(rs) |-> rs[i].issues])
                 IN IF is # <<>> THEN ParseFail(is)
                    ELSE ParseOk(Arr([i \in 1..Len(rs) |-> rs[i].out]))
      [] s.t = "record" ->
            IF x.k # "object" THEN ParseFail(<<TypeIssue("object", x, path)>>)
            ELSE LET rs == [i \in 1..Len(x.v) |->
                              Parse(s.val, x.v[i][2], Append(path, Str(x.v[i][1])))]
                     is == Flatten([i \in 1..Len(rs) |-> rs[i].issues])
                 IN IF is # <<>> THEN ParseFail(is)
                    ELSE ParseOk(Obj([i \in 1..Len(rs) |-> <<x.v[i][1], rs[i].out>>]))
      [] s.t = "object" ->
            IF x.k # "object" THEN ParseFail(<<TypeIssue("object", x, path)>>)
            ELSE LET rs == [i \in 1..Len(s.shape) |->
                              Parse(s.shape[i][2], Get(x, s.shape[i][1]),
                                    Append(path, Str(s.shape[i][1])))]
                     is == Flatten([i \in 1..Len(rs) |-> rs[i].issues])
                 IN IF is # <<>> THEN ParseFail(is)
                    ELSE ParseOk(Obj(Defined(
                            [i \in 1..Len(rs) |-> <<s.shape[i][1], rs[i].out>>])))

\* a parse of schemas declared .strict(): a key the shape does not declare is
\* an issue
ZodParseStrict(s, x) ==
    LET r == Parse(s, x, <<>>)
        unknown == IF s.t = "object" /\ x.k = "object"
                   THEN SelectSeq(x.v, LAMBDA p :
                            \A i \in 1..Len(s.shape) : s.shape[i][1] # p[1])
                   ELSE <<>>
    IN IF unknown = <<>> THEN r
       ELSE ParseFail(r.issues \o
                <<Obj(<< <<"code", Str("unrecognized_keys")>>,
                         <<"keys", Arr([i \in 1..Len(unknown) |-> Str(unknown[i][1])])>>,
                         <<"path", Arr(<<>>)>>,
                         <<"message", Str("Unrecognized key(s) in object")>> >>)>>)

\* a parse that gives up at the first issue
ZodParseAbortEarly(s, x) ==
    LET r == Parse(s, x, <<>>) IN
    [r EXCEPT !.issues = IF r.issues = <<>> THEN <<>> ELSE <<Head(r.issues)>>]

\* schema.parse(data): the parsed value, or a ZodError carrying every issue
ZodParse(s, x) == Parse(s, x, <<>>)

(***************************************************************************)
(* The validation schemas of the server.                                   *)
(***************************************************************************)
projectIdSchema == ZObject(<< <<"projectId", ZNumber>> >>)
optionalProjectIdSchema == ZObject(<< <<"projectId", ZOptional(ZNumber)>> >>)
databaseIdSchema == ZObject(<< <<"databaseId", ZString>> >>)
gridIdSchema == ZObject(<< <<"gridId", ZString>> >>)
gridMetadataSchema == ZObject(<< <<"metadata", ZOptional(ZRecord(ZAny))>> >>)
columnIdSchema == ZObject(<< <<"columnId", ZString>> >>)
columnSchema == ZObject(<< <<"id", ZString>>, <<"editable", ZBoolean>> >>)
viewIdSchema == ZObject(<< <<"viewId", ZString>> >>)
recordIdSchema == ZObject(<< <<"recordId", ZString>> >>)
dependencyIdSchema == ZObject(<< <<"dependencyId", ZString>> >>)
viewColumnSchema == Merge(viewIdSchema, columnIdSchema)
viewDependencySchema == Merge(viewIdSchema, dependencyIdSchema)

createGridSchema ==
    ZObject(Shape(databaseIdSchema)
            \o << <<"name", ZString>>, <<"templateGridId", ZOptional(ZString)>> >>
            \o Shape(gridMetadataSchema))

updateGridSchema ==
    ZObject(Shape(gridIdSchema) \o << <<"name", ZString>> >> \o Shape(gridMetadataSchema))

createViewSchema ==
    ZObject(<< <<"name", ZString>> >> \o Shape(gridIdSchema)
            \o << <<"columns", ZOptional(ZArray(columnSchema))>> >>)

\* the enumeration with its last literal left out
typeEnumWithoutYaml ==
    ZEnum(<<"singleLine", "multipleLines", "richText", "markdown", "singleSelection",
            "multipleSelections", "boolean", "number", "datetime", "files",
            "reference", "language", "formula", "json">>)

typeEnum ==
    ZEnum(<<"singleLine", "multipleLines", "richText", "markdown", "singleSelection",
            "multipleSelections", "boolean", "number", "datetime", "files",
            "reference", "language", "formula", "json", "yaml">>)

createColumnSchema ==
    ZObject(Shape(viewIdSchema)
            \o << <<"id", ZOptional(ZString)>>, <<"name", ZString>>, <<"type", typeEnum>> >>)

cellSchema == ZObject(<< <<"columnId", ZString>>, <<"value", ZString>> >>)

recordSchema ==
    ZObject(<< <<"id", ZOptional(ZString)>>, <<"path", ZOptional(ZString)>>,
               <<"cells", ZArray(cellSchema)>> >>)

addRecordsSchema == ZObject(Shape(viewIdSchema) \o << <<"records", ZArray(recordSchema)>> >>)

deleteRecordsSchema == ZObject(Shape(viewIdSchema) \o << <<"ids", ZArray(ZString)>> >>)

pageSchema == ZObject(<< <<"offset", ZNumber>>, <<"limit", ZNumber>> >>)

sortSchema == ZRecord(ZEnum(<<"asc", "desc">>))

listRecordsSchema ==
    ZObject(Shape(viewIdSchema)
            \o << <<"columnIds", ZOptional(ZArray(ZString))>>,
                  <<"page", ZOptional(pageSchema)>>,
                  <<"sort", ZOptional(sortSchema)>> >>)

getRecordHistorySchema ==
    ZObject(Shape(viewIdSchema) \o Shape(recordIdSchema)
            \o << <<"page", ZOptional(pageSchema)>> >>)

(***************************************************************************)
(* zodToJsonSchema(schema): the descriptive schema list-tools advertises   *)
(* (the describe() texts are left out of the model).                       *)
(***************************************************************************)
RECURSIVE zodToJsonSchema(_)
zodToJsonSchema(s) ==
    CASE s.t = "any" -> Obj(<<>>)
      [] s.t = "optional" -> zodToJsonSchema(s.inner)
      [] s.t \in {"string", "number", "boolean"} -> Obj(<< <<"type", Str(s.t)>> >>)
      [] s.t = "enum" ->
            Obj(<< <<"type", Str("string")>>,
                   <<"enum", Arr([i \in 1..Len(s.values) |-> Str(s.values[i])])>> >>)
      [] s.t = "array" ->
            Obj(<< <<"type", Str("array")>>, <<"items", zodToJsonSchema(s.elem)>> >>)
      [] s.t = "record" ->
            Obj(<< <<"type", Str("object")>>,
                   <<"additionalProperties", zodToJsonSchema(s.val)>> >>)
      [] s.t = "object" ->
            LET req == SelectSeq(s.shape, LAMBDA p : p[2].t # "optional") IN
            Obj(<< <<"type", Str("object")>>,
                   <<"properties",
                     Obj([i \in 1..Len(s.shape) |->
                            <<s.shape[i][1], zodToJsonSchema(s.shape[i][2])>>])>> >>
                \o (IF req = <<>> THEN <<>>
                    ELSE << <<"required",
                              Arr([i \in 1..Len(req) |-> Str(req[i][1])])>> >>)
                \o << <<"additionalProperties", Bool("false")>> >>)

(***************************************************************************)
(* Outbound HTTP requests.  A URL and a body are sequences of text tokens. *)
(***************************************************************************)
API_BASE == "https://api.gridly.com/v1"
API_KEY == env

NoBody == <<>>

\* headers built from a credential that is not the one read at startup
HeadersOfNoCredential ==
    << <<"Content-Type", "application/json">>,
       <<"Authorization", "ApiKey " \o "undefined">> >>

Headers ==
    << <<"Content-Type", "application/json">>,
       <<"Authorization", "ApiKey " \o API_KEY.v>> >>

\* fetch(url, {method, headers, body}) as the request it puts on the wire
Fetch(method, url, body) ==
    [method |-> method, url |-> url, headers |-> Headers, body |-> body]

\* the characters encodeURIComponent escapes, by token
Escape(tok) ==
    CASE tok = Q -> "%22"
      [] tok = "{" -> "%7B"
      [] tok = "}" -> "%7D"
      [] tok = "[" -> "%5B"
      [] tok = "]" -> "%5D"
      [] tok = ":" -> "%3A"
      [] tok = "," -> "%2C"
      [] tok = "1e+21" -> "1e%2B21"
      [] tok = "a b" -> "a%20b"
      [] tok = "c/1" -> "c%2F1"
      [] OTHER -> tok

encodeURIComponent(toks) == [i \in 1..Len(toks) |-> Escape(toks[i])]

\* URLSearchParams serialisation of one value (application/x-www-form-urlencoded)
FormEscape(tok) == IF tok = "a b" THEN "a+b" ELSE Escape(tok)

\* `${value}` of a template literal
Text(x) ==
    CASE x.k = "array" -> Join([i \in 1..Len(x.v) |-> <<x.v[i].v>>], <<",">>)
      [] x.k = "object" -> <<"[object Object]">>
      [] OTHER -> <<x.v>>

\* the truthiness of a JavaScript value
Truthy(x) ==
    CASE x.k \in {"undefined", "null"} -> FALSE
      [] x.k = "string" -> x.v # ""
      [] x.k = "number" -> x.v \notin {"0", "NaN"}
      [] x.k = "boolean" -> x.v = "true"
      [] OTHER -> TRUE

(***************************************************************************)
(* The remote call functions: the one request each of them issues.         *)
(***************************************************************************)
getProjects == Fetch("GET", <<API_BASE, "/projects">>, NoBody)

getProject(id) == Fetch("GET", <<API_BASE, "/projects/">> \o Text(id), NoBody)

getDatabases(projectId) ==
    Fetch("GET",
          <<API_BASE, "/databases">> \o
          (IF projectId # Undef
           THEN <<"?", "projectId", "=", FormEscape(projectId.v)>>
           ELSE <<>>),
          NoBody)

getDatabase(id) == Fetch("GET", <<API_BASE, "/databases/">> \o Text(id), NoBody)

getGrid(id) == Fetch("GET", <<API_BASE, "/grids/">> \o Text(id), NoBody)

createGrid(args) ==
    LET a == ZodParse(createGridSchema, args).out
        databaseId == Get(a, "databaseId")
        name == Get(a, "name")
    IN Fetch("POST", <<API_BASE, "/grids?dbId=">> \o Text(databaseId),
             Stringify(Obj(<< <<"name", name>> >>)))

\* updateGrid with the whole validated object as the body
updateGridSendsAll(args) ==
    LET a == ZodParse(updateGridSchema, args).out
    IN Fetch("PATCH", <<API_BASE, "/grids/">> \o Text(Get(a, "gridId")), Stringify(a))

updateGrid(args) ==
    LET a == ZodParse(updateGridSchema, args).out
        gridId == Get(a, "gridId")
        name == Get(a, "name")
        metadata == Get(a, "metadata")
    IN Fetch("PATCH", <<API_BASE, "/grids/">> \o Text(gridId),
             Stringify(Obj(<< <<"name", name>>, <<"metadata", metadata>> >>)))

deleteGrid(gridId) == Fetch("DELETE", <<API_BASE, "/grids/">> \o Text(gridId), NoBody)

getView(id) == Fetch("GET", <<API_BASE, "/views/">> \o Text(id), NoBody)

createView(args) ==
    LET a == ZodParse(createViewSchema, args).out
        name == Get(a, "name")
        gridId == Get(a, "gridId")
        columns == Get(a, "columns")
    IN Fetch("POST", <<API_BASE, "/views">>,
             Stringify(Obj(<< <<"name", name>>, <<"gridId", gridId>>,
                              <<"columns", columns>> >>)))

getColumn(args) ==
    LET a == ZodParse(viewColumnSchema, args).out
        viewId == Get(a, "viewId")
        columnId == Get(a, "columnId")
    IN Fetch("GET",
             <<API_BASE, "/views/">> \o Text(viewId) \o <<"/columns/">> \o Text(columnId),
             NoBody)

createColumn(args) ==
    LET a == ZodParse(createColumnSchema, args).out
        viewId == Get(a, "viewId")
        name == Get(a, "name")
        type == Get(a, "type")
    IN Fetch("POST", <<API_BASE, "/views/">> \o Text(viewId) \o <<"/columns">>,
             Stringify(Obj(<< <<"name", name>>, <<"type", type>> >>)))

deleteColumn(args) ==
    LET a == ZodParse(viewColumnSchema, args).out
        viewId == Get(a, "viewId")
        columnId == Get(a, "columnId")
    IN Fetch("DELETE",
             <<API_BASE, "/views/">> \o Text(viewId) \o <<"/columns/">> \o Text(columnId),
             NoBody)

getDependencies(viewId) ==
    Fetch("GET", <<API_BASE, "/views/">> \o Text(viewId) \o <<"/dependencies">>, NoBody)

getDependency(args) ==
    LET a == ZodParse(viewDependencySchema, args).out
        viewId == Get(a, "viewId")
        dependencyId == Get(a, "dependencyId")
    IN Fetch("GET",
             <<API_BASE, "/views/">> \o Text(viewId) \o <<"/dependencies/">>
                \o Text(dependencyId),
             NoBody)

deleteDependency(args) ==
    LET a == ZodParse(viewDependencySchema, args).out
        viewId == Get(a, "viewId")
        dependencyId == Get(a, "dependencyId")
    IN Fetch("DELETE",
             <<API_BASE, "/views/">> \o Text(viewId) \o <<"/dependencies/">>
                \o Text(dependencyId),
             NoBody)

getRecords(args) ==
    LET a == ZodParse(listRecordsSchema, args).out
        viewId == Get(a, "viewId")
        columnIds == Get(a, "columnIds")
        page == Get(a, "page")
        sort == Get(a, "sort")
        queryParams ==
            (IF Truthy(columnIds) THEN << <<"columnIds=">> \o Text(columnIds) >> ELSE <<>>)
            \o (IF Truthy(page)
                THEN << <<"page=">> \o encodeURIComponent(Stringify(page)) >> ELSE <<>>)
            \o (IF Truthy(sort)
                THEN << <<"sort=">> \o encodeURIComponent(Stringify(sort)) >> ELSE <<>>)
        queryString ==
            IF Len(queryParams) > 0 THEN <<"?">> \o Join(queryParams, <<"&">>) ELSE <<>>
    IN Fetch("GET",
             <<API_BASE, "/views/">> \o Text(viewId) \o <<"/records">> \o queryString,
             NoBody)

addRecords(args) ==
    LET a == ZodParse(addRecordsSchema, args).out
        viewId == Get(a, "viewId")
        records == Get(a, "records")
    IN Fetch("POST", <<API_BASE, "/views/">> \o Text(viewId) \o <<"/records">>,
             Stringify(records))

deleteRecords(args) ==
    LET a == ZodParse(deleteRecordsSchema, args).out
        viewId == Get(a, "viewId")
        ids == Get(a, "ids")
    IN Fetch("DELETE", <<API_BASE, "/views/">> \o Text(viewId) \o <<"/records">>,
             Stringify(Obj(<< <<"ids", ids>> >>)))

getRecordHistory(args) ==
    LET a == ZodParse(getRecordHistorySchema, args).out
        viewId == Get(a, "viewId")
        recordId == Get(a, "recordId")
        page == Get(a, "page")
        queryParam ==
            IF Truthy(page)
            THEN <<"?page=">> \o encodeURIComponent(Stringify(page)) ELSE <<>>
    IN Fetch("GET",
             <<API_BASE, "/views/">> \o Text(viewId) \o <<"/records/">> \o Text(recordId)
                \o <<"/histories">> \o queryParam,
             NoBody)

(***************************************************************************)
(* list-tools: the static catalog.                                         *)
(***************************************************************************)
Tool(name, description, inputSchema) ==
    [name |-> name, description |-> description, inputSchema |-> inputSchema]

ListToolsHandler ==
    << Tool("list_projects", "List projects of a company",
            Obj(<< <<"type", Str("object")>>, <<"properties", Obj(<<>>)>> >>)),
       Tool("retrieve_project", "Retrieve a project", zodToJsonSchema(projectIdSchema)),
       Tool("list_databases", "List databases in a project",
            zodToJsonSchema(optionalProjectIdSchema)),
       Tool("retrieve_database", "Retrieve a database", zodToJsonSchema(databaseIdSchema)),
       Tool("retrieve_grid", "Retrieve a grid", zodToJsonSchema(gridIdSchema)),
       Tool("create_grid", "Create a grid", zodToJsonSchema(createGridSchema)),
       Tool("update_grid", "Update a grid", zodToJsonSchema(updateGridSchema)),
       Tool("delete_grid", "Delete a grid", zodToJsonSchema(gridIdSchema)),
       Tool("retrieve_view", "Retrieve a view", zodToJsonSchema(viewIdSchema)),
       Tool("create_view", "Create a view", zodToJsonSchema(createViewSchema)),
       Tool("retrieve_column", "Retrieve a column", zodToJsonSchema(viewColumnSchema)),
       Tool("create_column", "Create a column", zodToJsonSchema(createColumnSchema)),
       Tool("delete_column", "Delete a column", zodToJsonSchema(viewColumnSchema)),
       Tool("list_dependencies", "List dependencies", zodToJsonSchema(viewIdSchema)),
       Tool("retrieve_dependency", "Retrieve a dependency",
            zodToJsonSchema(viewDependencySchema)),
       Tool("delete_dependency", "Delete a dependency",
            zodToJsonSchema(viewDependencySchema)),
       Tool("add_records", "Add new records to a view", zodToJsonSchema(addRecordsSchema)),
       Tool("delete_records", "Delete existing records of a view",
            zodToJsonSchema(deleteRecordsSchema)),
       Tool("list_records", "List records in a view", zodToJsonSchema(listRecordsSchema)),
       Tool("get_record_history", "Get record histories of a record in a view",
            zodToJsonSchema(getRecordHistorySchema)) >>

(***************************************************************************)
(* call-tool: the dispatcher.  Running the handler up to its first await   *)
(* either throws or leaves one fetch pending; `then` is what the code does *)
(* with the response: "json" returns response.json() pretty-printed,       *)
(* "delete" compares the status and picks one of the two sentences.        *)
(***************************************************************************)
NoError == [class |-> "", message |-> <<>>, errors |-> <<>>]
Error(message) == [class |-> "Error", message |-> message, errors |-> <<>>]
ZodError(issues) ==
    [class |-> "ZodError", message |-> StringifyPretty(Arr(issues), 0), errors |-> issues]

NoStep == [t |-> "none"]
Throw(error) == [t |-> "throw", error |-> error]
AwaitJson(req) == [t |-> "fetch", req |-> req, then |-> "json", sentences |-> <<>>]
AwaitDelete(req, deleted, failed) ==
    [t |-> "fetch", req |-> req, then |-> "delete", sentences |-> <<deleted, failed>>]

\* const args = schema.parse(request.params.arguments): the parsed arguments
Args(schema, arguments) == ZodParse(schema, arguments).out

\* schema.parse(request.params.arguments) throws, or the handler goes on to `step`
Validated(schema, arguments, step) ==
    LET r == ZodParse(schema, arguments) IN
    IF r.issues # <<>> THEN Throw(ZodError(r.issues)) ELSE step

\* a switch that has lost its last case
CaseLabelsWithoutHistory ==
    <<"list_projects", "retrieve_project", "list_databases", "retrieve_database",
      "retrieve_grid", "create_grid", "update_grid", "delete_grid", "retrieve_view",
      "create_view", "retrieve_column", "create_column", "delete_column",
      "list_dependencies", "retrieve_dependency", "delete_dependency", "list_records",
      "add_records", "delete_records">>

\* the case labels of the switch over request.params.name, in order
CaseLabels ==
    <<"list_projects", "retrieve_project", "list_databases", "retrieve_database",
      "retrieve_grid", "create_grid", "update_grid", "delete_grid", "retrieve_view",
      "create_view", "retrieve_column", "create_column", "delete_column",
      "list_dependencies", "retrieve_dependency", "delete_dependency", "list_records",
      "add_records", "delete_records", "get_record_history">>

\* the earlier version of the server file: the names of its catalog and the
\* case labels of its switch, in order
OlderCatalogNames ==
    <<"list_projects", "retrieve_project", "list_databases", "retrieve_database",
      "retrieve_grid", "create_grid", "update_grid", "delete_grid", "retrieve_view",
      "create_view", "retrieve_column", "create_column", "delete_column",
      "list_dependencies", "retrieve_dependency", "delete_dependency", "add_records",
      "delete_records">>

OlderCaseLabels ==
    <<"list_projects", "retrieve_project", "list_databases", "retrieve_database",
      "retrieve_grid", "create_grid", "update_grid", "delete_grid", "retrieve_view",
      "create_view", "retrieve_column", "create_column", "delete_column",
      "list_dependencies", "retrieve_dependency", "delete_dependency", "add_records",
      "delete_records">>

\* default: throw new Error(`Unknown tool: ${request.params.name}`)
UnknownToolAnonymous(name) == Throw(Error(<<"Unknown tool">>))

UnknownTool(name) == Throw(Error(<<"Unknown tool: ", name>>))

Dispatch(name, arguments) ==
    CASE name = "list_projects" -> AwaitJson(getProjects)
      [] name = "retrieve_project" ->
            Validated(projectIdSchema, arguments,
                      AwaitJson(getProject(Get(Args(projectIdSchema, arguments), "projectId"))))
      [] name = "list_databases" ->
            Validated(Partial(projectIdSchema), arguments,
                      AwaitJson(getDatabases(
                          Get(Args(Partial(projectIdSchema), arguments), "projectId"))))
      [] name = "retrieve_database" ->
            Validated(databaseIdSchema, arguments,
                      AwaitJson(getDatabase(Get(Args(databaseIdSchema, arguments), "databaseId"))))
      [] name = "retrieve_grid" ->
            Validated(gridIdSchema, arguments,
                      AwaitJson(getGrid(Get(Args(gridIdSchema, arguments), "gridId"))))
      [] name = "create_grid" ->
            Validated(createGridSchema, arguments,
                      AwaitJson(createGrid(Args(createGridSchema, arguments))))
      [] name = "update_grid" ->
            Validated(updateGridSchema, arguments,
                      AwaitJson(updateGrid(Args(updateGridSchema, arguments))))
      [] name = "delete_grid" ->
            Validated(gridIdSchema, arguments,
                      AwaitDelete(deleteGrid(Get(Args(gridIdSchema, arguments), "gridId")),
                                  "Grid successfully deleted.",
                                  "Failed to delete grid."))
      [] name = "retrieve_view" ->
            Validated(viewIdSchema, arguments,
                      AwaitJson(getView(Get(Args(viewIdSchema, arguments), "viewId"))))
      [] name = "create_view" ->
            Validated(createViewSchema, arguments,
                      AwaitJson(createView(Args(createViewSchema, arguments))))
      [] name = "retrieve_column" ->
            Validated(viewColumnSchema, arguments,
                      AwaitJson(getColumn(Args(viewColumnSchema, arguments))))
      [] name = "create_column" ->
            Validated(createColumnSchema, arguments,
                      AwaitJson(createColumn(Args(createColumnSchema, arguments))))
      [] name = "delete_column" ->
            Validated(viewColumnSchema, arguments,
                      AwaitDelete(deleteColumn(Args(viewColumnSchema, arguments)),
                                  "Column successfully deleted.",
                                  "Failed to delete column."))
      [] name = "list_dependencies" ->
            Validated(viewIdSchema, arguments,
                      AwaitJson(getDependencies(Get(Args(viewIdSchema, arguments), "viewId"))))
      [] name = "retrieve_dependency" ->
            Validated(viewDependencySchema, arguments,
                      AwaitJson(getDependency(Args(viewDependencySchema, arguments))))
      [] name = "delete_dependency" ->
            Validated(viewDependencySchema, arguments,
                      AwaitDelete(deleteDependency(Args(viewDependencySchema, arguments)),
                                  "Dependency successfully deleted.",
                                  "Failed to delete dependency."))
      [] name = "list_records" ->
            Validated(listRecordsSchema, arguments,
                      AwaitJson(getRecords(Args(listRecordsSchema, arguments))))
      [] name = "add_records" ->
            Validated(addRecordsSchema, arguments,
                      AwaitJson(addRecords(Args(addRecordsSchema, arguments))))
      [] name = "delete_records" ->
            Validated(deleteRecordsSchema, arguments,
                      AwaitDelete(deleteRecords(Args(deleteRecordsSchema, arguments)),
                                  "Record(s) successfully deleted.",
                                  "Failed to delete record(s)."))
      [] name = "get_record_history" ->
            Validated(getRecordHistorySchema, arguments,
                      AwaitJson(getRecordHistory(Args(getRecordHistorySchema, arguments))))
      [] OTHER -> UnknownTool(name)

\* a catch clause that reports every error as an input error
CatchWrapsAll(error) ==
    Error(<<"Invalid input: ">> \o Stringify(Arr(error.errors)))

\* the catch clause of the handler: what the caller receives for a thrown error
Catch(error) ==
    IF error.class = "ZodError"
    THEN Error(<<"Invalid input: ">> \o Stringify(Arr(error.errors)))
    ELSE error

NoOutcome == [kind |-> "none", text |-> <<>>, error |-> NoError]
TextResult(text) == [kind |-> "result", text |-> text, error |-> NoError]
Failure(error) == [kind |-> "error", text |-> <<>>, error |-> Catch(error)]

(***************************************************************************)
(* The remote side: what a pending fetch can resolve to.                   *)
(***************************************************************************)
NoContent == 204

NotJson(text) == [k |-> "text", v |-> text]

NoResponse == [status |-> 0, body |-> Undef]
TransportError == [class |-> "TypeError", message |-> <<"fetch failed">>, errors |-> <<>>]
SyntaxError ==
    [class |-> "SyntaxError", message |-> <<"Unexpected end of JSON input">>,
     errors |-> <<>>]

\* a handler that answers a request it has answered before from what it then got
ResumeCached(step, response) ==
    IF noted.first.pc = "done" /\ noted.first.step = step
       /\ noted.first.outcome.kind = "result"
    THEN noted.first.outcome
    ELSE IF step.then = "delete"
         THEN TextResult(<<IF response.status = NoContent
                           THEN step.sentences[1] ELSE step.sentences[2]>>)
         ELSE IF response.body.k = "text"
              THEN Failure(SyntaxError)
              ELSE TextResult(StringifyPretty(response.body, 0))

\* a handler that takes every 2xx status of a delete for success
ResumeOnOk(step, response) ==
    IF step.then = "delete"
    THEN TextResult(<<IF response.status \in 200..299
                      THEN step.sentences[1] ELSE step.sentences[2]>>)
    ELSE IF response.body.k = "text"
         THEN Failure(SyntaxError)
         ELSE TextResult(StringifyPretty(response.body, 0))

\* the rest of the handler once the awaited fetch has resolved with `response`
Resume(step, response) ==
    IF step.then = "delete"
    THEN TextResult(<<IF response.status = NoContent
                      THEN step.sentences[1] ELSE step.sentences[2]>>)
    ELSE IF response.body.k = "text"
         THEN Failure(SyntaxError)
         ELSE TextResult(StringifyPretty(response.body, 0))

\* a delete function that catches the rejection of its fetch and returns false
RejectedAsFailedDelete(slot) ==
    [slot EXCEPT !.pc = "done",
                 !.outcome = IF slot.step.then = "delete"
                             THEN TextResult(<<slot.step.sentences[2]>>)
                             ELSE Failure(TransportError)]

\* a handler that issues the request again when the fetch rejects
RejectedRetries(slot) == [slot EXCEPT !.sent = Append(@, slot.step.req)]

\* the rest of the handler once the awaited fetch has rejected: the error
\* reaches the catch clause and goes to the caller
Rejected(slot) == [slot EXCEPT !.pc = "done", !.outcome = Failure(TransportError)]

(***************************************************************************)
(* The requests a client sends: every registered name, the two names only  *)
(* the README lists, and one name nobody knows; for each field of the      *)
(* tool's schema the field left out, well-formed, or malformed.            *)
(***************************************************************************)
ToolNames == {ListToolsHandler[i].name : i \in 1..Len(ListToolsHandler)}

RequestedNames ==
    ToolNames \cup {"add_column_to_view", "remove_column_from_view", "frobnicate"}

StringOptions(s) == {Undef, Str(s), Num("7")}

Column1 == Obj(<< <<"id", Str("c1")>>, <<"editable", Bool("true")>> >>)
Cell1 == Obj(<< <<"columnId", Str("c1")>>, <<"value", Str("hello")>> >>)
Record1 == Obj(<< <<"id", Str("r1")>>, <<"cells", Arr(<<Cell1>>)>> >>)

PageOptions ==
    {Undef,
     Obj(<< <<"offset", Num("0")>>, <<"limit", Num("10")>> >>),
     Obj(<< <<"offset", Num("-1")>>, <<"limit", Num("10")>> >>),
     Obj(<< <<"offset", Num("0")>>, <<"limit", Num("1.5")>> >>),
     Obj(<< <<"offset", Str("0")>> >>)}

\* the fifteen column kinds of the remote API
ColumnKinds ==
    {"singleLine", "multipleLines", "richText", "markdown", "singleSelection",
     "multipleSelections", "boolean", "number", "datetime", "files", "reference",
     "language", "formula", "json", "yaml"}

TypeOptions ==
    {Undef, Num("7"), Str("color"), Str("SingleLine")} \cup {Str(kind) : kind \in ColumnKinds}

FieldOptions(name) ==
    CASE name = "retrieve_project" -> << <<"projectId", {Undef, Num("7"), Str("p1")}>> >>
      [] name = "list_databases" ->
            << <<"projectId", {Undef, Num("7"), Num("1e+21"), Str("p1")}>> >>
      [] name = "retrieve_database" -> << <<"databaseId", StringOptions("db1")>> >>
      [] name \in {"retrieve_grid", "delete_grid"} ->
            << <<"gridId", StringOptions("g1")>> >>
      [] name = "create_grid" ->
            << <<"databaseId", StringOptions("db1")>>,
               <<"name", StringOptions("Sheet")>>,
               <<"templateGridId", StringOptions("t1")>>,
               <<"metadata", {Undef, Obj(<< <<"a", Num("1")>> >>),
                              Obj(<< <<"a", Null>> >>), Str("m")}>> >>
      [] name = "update_grid" ->
            << <<"gridId", StringOptions("g1")>>,
               <<"name", StringOptions("Sheet")>>,
               <<"metadata", {Undef, Obj(<< <<"a", Num("1")>> >>),
                              Obj(<< <<"a", Null>> >>), Str("m")}>> >>
      [] name \in {"retrieve_view", "list_dependencies"} ->
            << <<"viewId", StringOptions("v1")>> >>
      [] name = "create_view" ->
            << <<"name", StringOptions("View")>>,
               <<"gridId", StringOptions("g1")>>,
               <<"columns", {Undef, Arr(<<Column1>>),
                             Arr(<<Column1, Obj(<< <<"id", Num("7")>> >>)>>),
                             Str("c1")}>> >>
      [] name \in {"retrieve_column", "delete_column"} ->
            << <<"viewId", StringOptions("v1")>>, <<"columnId", StringOptions("c1")>> >>
      [] name = "create_column" ->
            << <<"viewId", {Undef, Str("v1")}>>,
               <<"id", StringOptions("c1")>>,
               <<"name", {Str("Col"), Num("7")}>>,
               <<"type", TypeOptions>> >>
      [] name \in {"retrieve_dependency", "delete_dependency"} ->
            << <<"viewId", StringOptions("v1")>>,
               <<"dependencyId", StringOptions("d1")>> >>
      [] name = "add_records" ->
            << <<"viewId", StringOptions("v1")>>,
               <<"records", {Undef, Arr(<<Record1>>),
                             Arr(<<Record1, Obj(<< <<"path", Str("a/b")>> >>)>>),
                             Str("r1")}>> >>
      [] name = "delete_records" ->
            << <<"viewId", StringOptions("v1")>>,
               <<"ids", {Undef, Arr(<<Str("r1"), Str("r2")>>),
                         Arr(<<Str("r1"), Num("7"), Null>>), Str("r1")}>> >>
      [] name = "list_records" ->
            << <<"viewId", StringOptions("v1")>>,
               <<"columnIds", {Undef, Arr(<<Str("c1"), Str("c2")>>),
                               Arr(<<Num("7")>>)}>>,
               <<"page", PageOptions>>,
               <<"sort", {Undef, Obj(<< <<"c1", Str("asc")>> >>),
                          Obj(<< <<"c1", Str("up")>> >>)}>> >>
      [] name = "get_record_history" ->
            << <<"viewId", StringOptions("v1")>>,
               <<"recordId", StringOptions("r1")>>,
               <<"page", PageOptions>> >>
      [] OTHER -> <<>>

RECURSIVE Bags(_)
Bags(options) ==
    IF options = <<>> THEN {<<>>}
    ELSE {(IF v = Undef THEN <<>> ELSE << <<Head(options)[1], v>> >>) \o rest :
            v \in Head(options)[2], rest \in Bags(Tail(options))}

\* request.params.arguments: absent, or a bag, with or without an undeclared field
Arguments(name) ==
    {Undef}
    \cup {Obj(b) : b \in Bags(FieldOptions(name))}
    \cup {Obj(b \o << <<"extra", Str("x")>> >>) : b \in Bags(FieldOptions(name))}

Statuses == {200, NoContent, 404, 500}

Bodies ==
    {Obj(<< <<"id", Str("g1")>>, <<"name", Str("Sheet")>> >>),
     Obj(<< <<"message", Str("Not found")>> >>),
     NotJson("")}

(***************************************************************************)
(* State machine.                                                          *)
(***************************************************************************)
Idle ==
    [pc |-> "idle", id |-> 0, name |-> "", arguments |-> Undef, sent |-> <<>>,
     step |-> NoStep,
     response |-> NoResponse, outcome |-> NoOutcome]

\* nothing observed yet
NoNote == [first |-> Idle, failed |-> 0]

Init ==
    /\ env \in {Undef, Str(""), Str("secret")}
    /\ phase = "load"
    /\ inv = [i \in {1} |-> Idle]
    /\ listed = <<>>
    /\ calls = 0
    /\ fetches = 0
    /\ noted = NoNote

\* a check that only notices a credential that is not set at all
CredentialUndefined == API_KEY = Undef

\* if (!API_KEY)
CredentialMissing == ~Truthy(API_KEY)

\* the module reads the credential and throws without it; with it the server
\* is built and the two handlers are registered
LoadModule ==
    /\ phase = "load"
    /\ phase' = IF CredentialMissing THEN "crashed" ELSE "starting"
    /\ UNCHANGED <<env, inv, listed, calls, fetches, noted>>

\* runServer: server.connect(transport) resolves, or rejects and the process exits
RunServer ==
    /\ phase = "starting"
    /\ phase' \in {"serving", "exited"}
    /\ UNCHANGED <<env, inv, listed, calls, fetches, noted>>

\* a handler that hands out a shared array and takes an entry off it each time
ListToolsDraining ==
    /\ phase = "serving"
    /\ listed' = IF listed = <<>> THEN ListToolsHandler ELSE Tail(listed)
    /\ calls' = calls + 1
    /\ UNCHANGED <<env, phase, inv, fetches, noted>>

ListTools ==
    /\ phase = "serving"
    /\ listed' = ListToolsHandler
    /\ calls' = calls + 1
    /\ UNCHANGED <<env, phase, inv, fetches, noted>>

\* the handler runs to its first await: it has thrown, or one fetch is pending
CallTool(i, name, arguments) ==
    /\ phase = "serving"
    /\ inv[i].pc = "idle"
    /\ LET step == Dispatch(name, arguments) IN
       /\ inv' = [inv EXCEPT ![i] =
                    IF step.t = "throw"
                    THEN [Idle EXCEPT !.pc = "done", !.id = calls + 1, !.name = name,
                                      !.arguments = arguments, !.step = step,
                                      !.outcome = Failure(step.error)]
                    ELSE [Idle EXCEPT !.pc = "awaiting", !.id = calls + 1, !.name = name,
                                      !.arguments = arguments, !.step = step,
                                      !.sent = <<step.req>>]]
       /\ fetches' = IF step.t = "throw" THEN fetches ELSE fetches + 1
    /\ calls' = calls + 1
    /\ UNCHANGED <<env, phase, listed, noted>>

\* a handler that, resumed with the response, awaits something that never
\* settles: it holds the response and does not return
FetchResolvesNeverReturns(i, response) ==
    /\ inv[i].pc = "awaiting"
    /\ inv' = [inv EXCEPT ![i].response = response]
    /\ UNCHANGED <<env, phase, listed, calls, fetches, noted>>

\* handlers that keep the awaited response in one variable of the module: a
\* response that arrives resumes every handler that is waiting
FetchResolvesShared(i, response) ==
    /\ inv[i].pc = "awaiting"
    /\ inv' = [j \in DOMAIN inv |->
                IF inv[j].pc = "awaiting"
                THEN [inv[j] EXCEPT !.pc = "done", !.response = response,
                                    !.outcome = Resume(inv[j].step, response)]
                ELSE inv[j]]
    /\ UNCHANGED <<env, phase, listed, calls, fetches, noted>>

\* the pending fetch resolves with a response of the remote API
FetchResolves(i, response) ==
    /\ inv[i].pc = "awaiting"
    /\ inv' = [inv EXCEPT ![i].pc = "done", ![i].response = response,
                          ![i].outcome = Resume(inv[i].step, response)]
    /\ UNCHANGED <<env, phase, listed, calls, fetches, noted>>

\* the pending fetch rejects: no response arrives
FetchRejects(i) ==
    /\ inv[i].pc = "awaiting"
    /\ inv' = [inv EXCEPT ![i] = Rejected(inv[i])]
    /\ UNCHANGED <<env, phase, listed, calls, fetches, noted>>

\* a handler whose error ends the process, as a failure of runServer does
ReturnExitsOnError(i) ==
    /\ inv[i].pc = "done"
    /\ inv' = [inv EXCEPT ![i] = Idle]
    /\ phase' = IF inv[i].outcome.kind = "error" THEN "exited" ELSE phase
    /\ UNCHANGED <<env, listed, calls, fetches, noted>>

\* the outcome has gone back to the caller
Return(i) ==
    /\ inv[i].pc = "done"
    /\ inv' = [inv EXCEPT ![i] = Idle]
    /\ UNCHANGED <<env, phase, listed, calls, fetches, noted>>

Next ==
    \/ LoadModule
    \/ RunServer
    \/ calls < MaxCalls /\ ListTools
    \/ /\ calls < MaxCalls
       /\ \E i \in DOMAIN inv, name \in RequestedNames :
            \E arguments \in Arguments(name) : CallTool(i, name, arguments)
    \/ \E i \in DOMAIN inv, status \in Statuses, body \in Bodies :
         FetchResolves(i, [status |-> status, body |-> body])
    \/ \E i \in DOMAIN inv : FetchRejects(i)
    \/ \E i \in DOMAIN inv : Return(i)

Spec == Init /\ [][Next]_vars

(***************************************************************************)
(* A session of a few clients: two invocations can be in flight at once,   *)
(* over a small set of requests (a read, a delete, an unknown name; a      *)
(* well-formed and a malformed bag; a remote that answers with one of two  *)
(* JSON bodies or with no content), and an observer writes down how the    *)
(* first request has ended and the first failure it looks at.              *)
(***************************************************************************)
MaxSessionCalls == 3

SessionNames == {"retrieve_grid", "delete_grid", "frobnicate"}

SessionArguments(name) ==
    CASE name = "retrieve_grid" ->
            {Obj(<< <<"gridId", Str("g1")>> >>), Obj(<< <<"gridId", Str("g2")>> >>),
             Obj(<<>>)}
      [] name = "delete_grid" -> {Obj(<< <<"gridId", Str("g1")>> >>)}
      [] OTHER -> {Undef}

SessionResponses ==
    {[status |-> 200, body |-> Obj(<< <<"id", Str("g1")>>, <<"name", Str("Sheet")>> >>)],
     [status |-> 200, body |-> Obj(<< <<"id", Str("g1")>>, <<"name", Str("Budget")>> >>)],
     [status |-> NoContent, body |-> NotJson("")]}

InitSession ==
    /\ env \in {Undef, Str("secret")}
    /\ phase = "load"
    /\ inv = [i \in {1, 2} |-> Idle]
    /\ listed = <<>>
    /\ calls = 0
    /\ fetches = 0
    /\ noted = NoNote

\* the slots are interchangeable: a new invocation takes the first free one
FirstFree(i) == \A j \in DOMAIN inv : j < i => inv[j].pc # "idle"

\* the observer writes down how the first request of the session, if it was
\* a call-tool, has ended
NoteFirst(i) ==
    /\ inv[i].pc = "done"
    /\ inv[i].id = 1
    /\ noted.first = Idle
    /\ noted' = [noted EXCEPT !.first = inv[i]]
    /\ UNCHANGED <<env, phase, inv, listed, calls, fetches>>

\* the observer writes down the number of the first failed invocation it
\* looks at
NoteFailure(i) ==
    /\ inv[i].pc = "done"
    /\ inv[i].outcome.kind = "error"
    /\ noted.failed = 0
    /\ noted' = [noted EXCEPT !.failed = inv[i].id]
    /\ UNCHANGED <<env, phase, inv, listed, calls, fetches>>

SessionNext ==
    \/ LoadModule
    \/ RunServer
    \/ calls < MaxSessionCalls /\ ListTools
    \/ /\ calls < MaxSessionCalls
       /\ \E i \in DOMAIN inv, name \in SessionNames :
            /\ FirstFree(i)
            /\ \E arguments \in SessionArguments(name) : CallTool(i, name, arguments)
    \/ \E i \in DOMAIN inv, response \in SessionResponses : FetchResolves(i, response)
    \/ \E i \in DOMAIN inv : FetchRejects(i)
    \/ \E i \in DOMAIN inv : Return(i)
    \/ \E i \in DOMAIN inv : NoteFirst(i)
    \/ \E i \in DOMAIN inv : NoteFailure(i)

SpecSession == InitSession /\ [][SessionNext]_vars

(***************************************************************************)
(* The same requests with one invocation at a time and a remote whose      *)
(* pending request does settle: fetch resolves with a response or rejects, *)
(* and the event loop then resumes the handler.                            *)
(***************************************************************************)
Settles(i) ==
    \/ \E response \in SessionResponses : FetchResolves(i, response)
    \/ FetchRejects(i)

SpecLive == Init /\ [][SessionNext]_vars /\ WF_vars(Settles(1))

(***************************************************************************)
(* Reading the advertised schemas: the input schema list-tools gives for a *)
(* tool, whether a value conforms to it, and the declared fields a bag     *)
(* violates (a required field missing, or a field holding a value that     *)
(* does not conform).                                                      *)
(***************************************************************************)
Advertised(name) ==
    (ListToolsHandler[CHOOSE j \in 1..Len(ListToolsHandler) :
                        ListToolsHandler[j].name = name]).inputSchema

RequiredOf(js) ==
    IF HasKey(js, "required") THEN {r.v : r \in Range(Get(js, "required").v)} ELSE {}

RECURSIVE Conforms(_, _)
Conforms(js, x) ==
    IF ~HasKey(js, "type") THEN TRUE
    ELSE LET type == Get(js, "type").v IN
         CASE type \in {"string", "number", "boolean"} ->
                /\ x.k = type
                /\ HasKey(js, "enum") => x \in Range(Get(js, "enum").v)
           [] type = "array" ->
                /\ x.k = "array"
                /\ \A e \in Range(x.v) : Conforms(Get(js, "items"), e)
           [] type = "object" ->
                /\ x.k = "object"
                /\ \A r \in RequiredOf(js) : HasKey(x, r)
                /\ HasKey(js, "properties") =>
                     \A p \in Range(Get(js, "properties").v) :
                        HasKey(x, p[1]) => Conforms(p[2], Get(x, p[1]))
                /\ (HasKey(js, "additionalProperties")
                        /\ Get(js, "additionalProperties").k = "object") =>
                     \A m \in Range(x.v) : Conforms(Get(js, "additionalProperties"), m[2])

DeclaredFields(name) == {p[1] : p \in Range(Get(Advertised(name), "properties").v)}

Violated(name, bag) ==
    LET js == Advertised(name) IN
    {f \in DeclaredFields(name) :
        \/ f \in RequiredOf(js) /\ ~HasKey(bag, f)
        \/ HasKey(bag, f) /\ ~Conforms(Get(Get(js, "properties"), f), Get(bag, f))}

\* the fields an "Invalid input" message names: the head of every issue's path
ListedFields(message) ==
    {message[j + 5] : j \in {j \in 2..(Len(message) - 5) :
        /\ message[j - 1] = Q /\ message[j] = "path" /\ message[j + 1] = Q
        /\ message[j + 2] = ":" /\ message[j + 3] = "[" /\ message[j + 4] = Q}}

Slots == DOMAIN inv

IsInvalidInput(outcome) ==
    /\ outcome.kind = "error"
    /\ outcome.error.class = "Error"
    /\ outcome.error.message # <<>>
    /\ Head(outcome.error.message) = "Invalid input: "

IsUnknownTool(outcome) ==
    /\ outcome.kind = "error"
    /\ outcome.error.class = "Error"
    /\ outcome.error.message # <<>>
    /\ Head(outcome.error.message) \in {"Unknown tool: ", "Unknown tool"}

\* a bag that is there and violates no declared field of the tool's schema
\* (list_projects reads no arguments at all)
WellFormed(name, arguments) ==
    /\ name \in ToolNames
    /\ \/ name = "list_projects"
       \/ arguments.k = "object" /\ Violated(name, arguments) = {}

Malformed(name, arguments) ==
    /\ name \in ToolNames
    /\ arguments.k = "object"
    /\ Violated(name, arguments) # {}

(***************************************************************************)
(* C1.  An invocation whose argument bag violates a declared field of the  *)
(* tool's schema ends in an "Invalid input" error whose payload names      *)
(* every violated field, and it issues no HTTP request.                    *)
(***************************************************************************)
C1_InvalidInputListsEveryField ==
    \A i \in Slots :
        (inv[i].pc # "idle" /\ Malformed(inv[i].name, inv[i].arguments)) =>
            /\ inv[i].pc = "done"
            /\ IsInvalidInput(inv[i].outcome)
            /\ ListedFields(inv[i].outcome.error.message)
                  = Violated(inv[i].name, inv[i].arguments)
            /\ inv[i].sent = <<>>
            /\ inv[i].response = NoResponse

C1_Witness ==
    \E i \in Slots :
        /\ inv[i].pc = "done"
        /\ inv[i].name = "create_column"
        /\ Malformed(inv[i].name, inv[i].arguments)
        /\ Cardinality(Violated(inv[i].name, inv[i].arguments)) = 4

(***************************************************************************)
(* C2.  An invocation whose name is not in the catalog ends in an          *)
(* "Unknown tool" error whose message holds the name, with no HTTP request.*)
(***************************************************************************)
C2_UnknownToolNamesTheTool ==
    \A i \in Slots :
        (inv[i].pc # "idle" /\ inv[i].name \notin ToolNames) =>
            /\ inv[i].pc = "done"
            /\ inv[i].outcome.kind = "error"
            /\ inv[i].outcome.error.class = "Error"
            /\ inv[i].outcome.error.message = <<"Unknown tool: ", inv[i].name>>
            /\ inv[i].sent = <<>>

C2_Witness ==
    \E i \in Slots : inv[i].pc = "done" /\ inv[i].name = "frobnicate"

(***************************************************************************)
(* C3.  A delete-style tool with valid arguments answers the no-content    *)
(* status with its "successfully deleted" sentence and any other status    *)
(* with its "Failed to delete" sentence, as a text result.                 *)
(***************************************************************************)
DeleteSentences ==
    [delete_grid |-> <<"Grid successfully deleted.", "Failed to delete grid.">>,
     delete_column |-> <<"Column successfully deleted.", "Failed to delete column.">>,
     delete_dependency |->
        <<"Dependency successfully deleted.", "Failed to delete dependency.">>,
     delete_records |->
        <<"Record(s) successfully deleted.", "Failed to delete record(s).">>]

DeleteTools == DOMAIN DeleteSentences

C3_DeleteBoundaryIsNoContent ==
    \A i \in Slots :
        (/\ inv[i].pc = "done"
         /\ inv[i].name \in DeleteTools
         /\ WellFormed(inv[i].name, inv[i].arguments)
         /\ inv[i].response # NoResponse) =>
            inv[i].outcome =
                [kind |-> "result",
                 text |-> <<IF inv[i].response.status = 204
                            THEN DeleteSentences[inv[i].name][1]
                            ELSE DeleteSentences[inv[i].name][2]>>,
                 error |-> NoError]

C3_Witness ==
    \E i \in Slots :
        /\ inv[i].pc = "done"
        /\ inv[i].name = "delete_records"
        /\ inv[i].response.status = 200
        /\ inv[i].outcome.text = <<"Failed to delete record(s).">>

(***************************************************************************)
(* C4.  An invocation with a registered name and well-formed arguments     *)
(* issues exactly one HTTP request, whatever the remote answers and        *)
(* whatever was handled before it.                                         *)
(***************************************************************************)
C4_ExactlyOneRequest ==
    \A i \in Slots :
        (inv[i].pc # "idle" /\ WellFormed(inv[i].name, inv[i].arguments)) =>
            Len(inv[i].sent) = 1

C4_Witness ==
    \E i \in Slots :
        /\ inv[i].pc = "done"
        /\ WellFormed(inv[i].name, inv[i].arguments)
        /\ inv[i].response = NoResponse
        /\ calls = MaxCalls
        /\ fetches = MaxCalls

(***************************************************************************)
(* C5.  For a create/update tool the JSON body holds every validated field *)
(* the caller supplied under its own name, except the ids that went into   *)
(* the URL, which it does not hold.                                        *)
(***************************************************************************)
RoutingFields ==
    [create_grid |-> {"databaseId"}, update_grid |-> {"gridId"}, create_view |-> {},
     create_column |-> {"viewId"}, add_records |-> {"viewId"}]

HasMember(body, f, x) ==
    LET member == <<Q, f, Q, ":">> \o Stringify(x) IN
    \E j \in 1..(Len(body) - Len(member) + 1) :
        SubSeq(body, j, j + Len(member) - 1) = member

HasKeyText(body, f) ==
    \E j \in 1..(Len(body) - 3) : SubSeq(body, j, j + 3) = <<Q, f, Q, ":">>

C5_BodyCarriesEveryField ==
    \A i \in Slots :
        (/\ inv[i].pc # "idle"
         /\ inv[i].name \in DOMAIN RoutingFields
         /\ WellFormed(inv[i].name, inv[i].arguments)) =>
            /\ Len(inv[i].sent) = 1
            /\ \A f \in DeclaredFields(inv[i].name) :
                 IF f \in RoutingFields[inv[i].name]
                 THEN ~HasKeyText(inv[i].sent[1].body, f)
                 ELSE HasKey(inv[i].arguments, f) =>
                        HasMember(inv[i].sent[1].body, f, Get(inv[i].arguments, f))

(***************************************************************************)
(* C6.  When the remote answers a non-delete tool with a 4xx/5xx status,   *)
(* the invocation ends in an error, not in a text result.                  *)
(***************************************************************************)
C6_ErrorStatusEndsInError ==
    \A i \in Slots :
        (/\ inv[i].pc = "done"
         /\ inv[i].name \in ToolNames \ DeleteTools
         /\ inv[i].response # NoResponse
         /\ inv[i].response.status >= 400) =>
            inv[i].outcome.kind = "error"

(***************************************************************************)
(* C7.  When the request of an invocation fails at transport level, or the *)
(* response body a tool decodes is not JSON, the caller receives that very *)
(* error (not an "Invalid input" one), with no result text and with no     *)
(* second request.                                                         *)
(***************************************************************************)
C7_TransportAndDecodeErrorsUnchanged ==
    \A i \in Slots :
        (inv[i].pc = "done" /\ inv[i].sent # <<>>) =>
            /\ inv[i].response = NoResponse =>
                 /\ inv[i].outcome =
                        [kind |-> "error", text |-> <<>>, error |-> TransportError]
                 /\ Len(inv[i].sent) = 1
            /\ (/\ inv[i].response # NoResponse
                /\ inv[i].name \notin DeleteTools
                /\ inv[i].response.body.k = "text") =>
                 /\ inv[i].outcome =
                        [kind |-> "error", text |-> <<>>, error |-> SyntaxError]
                 /\ Len(inv[i].sent) = 1

C7_Witness ==
    \E i \in Slots :
        /\ inv[i].pc = "done"
        /\ inv[i].name = "retrieve_grid"
        /\ inv[i].response.status = 200
        /\ inv[i].outcome.error = SyntaxError

(***************************************************************************)
(* C8.  For every tool of the catalog, call-tool validation rejects a bag  *)
(* exactly when the bag violates a field of the schema list-tools          *)
(* advertises for that tool: the same fields, the same required ones.      *)
(***************************************************************************)
C8_AdvertisedSchemaIsValidatedSchema ==
    \A i \in Slots :
        (/\ inv[i].pc # "idle"
         /\ inv[i].name \in ToolNames
         /\ inv[i].arguments.k = "object") =>
            /\ IsInvalidInput(inv[i].outcome)
                  <=> Violated(inv[i].name, inv[i].arguments) # {}
            /\ IsInvalidInput(inv[i].outcome) =>
                  ListedFields(inv[i].outcome.error.message)
                     \subseteq DeclaredFields(inv[i].name)

C8_Witness ==
    \E i \in Slots :
        /\ inv[i].pc = "awaiting"
        /\ inv[i].name = "list_databases"
        /\ inv[i].arguments = Obj(<<>>)

(***************************************************************************)
(* C9.  Every tool name the README lists under "Available Tools" is in the *)
(* catalog and, when called, does not end in the unknown-tool error.       *)
(***************************************************************************)
ReadmeTools ==
    {"list_projects", "retrieve_project", "list_databases", "retrieve_database",
     "retrieve_grid", "create_grid", "update_grid", "delete_grid", "retrieve_view",
     "create_view", "retrieve_column", "create_column", "delete_column",
     "add_column_to_view", "remove_column_from_view", "list_dependencies",
     "retrieve_dependency", "delete_dependency", "add_records", "delete_records",
     "list_records", "get_record_history"}

C9_ReadmeToolsAreServed ==
    \A i \in Slots :
        (inv[i].pc # "idle" /\ inv[i].name \in ReadmeTools) =>
            /\ inv[i].name \in ToolNames
            /\ ~IsUnknownTool(inv[i].outcome)

(***************************************************************************)
(* C10.  Started without the credential, or with an empty one, the process *)
(* never gets to connect its transport: it handles no list-tools and no    *)
(* call-tool request and issues no HTTP request.                           *)
(***************************************************************************)
C10_NoCredentialNoServing ==
    ~Truthy(env) =>
        /\ phase \in {"load", "crashed"}
        /\ calls = 0
        /\ fetches = 0
        /\ listed = <<>>
        /\ \A i \in Slots : inv[i] = Idle

C10_Witness == env = Str("") /\ phase = "crashed"

(***************************************************************************)
(* C11.  An invocation that ends in an error (unknown tool, validation,     *)
(* transport or decoding) leaves the server as it was: it goes on serving,  *)
(* a catalog listed before is listed again unchanged, and an invocation     *)
(* made after the failure sends the same request and, given the same        *)
(* response, has the same outcome as the same invocation made before it.    *)
(***************************************************************************)
SameCall(slot, other) ==
    slot.name = other.name /\ slot.arguments = other.arguments

\* the noted first invocation came before the noted failure, this one after
AfterFailure(slot) ==
    /\ slot.pc # "idle"
    /\ noted.first # Idle
    /\ noted.first.id < noted.failed
    /\ slot.id > noted.failed

C11_FailureLeavesServerUntouched ==
    /\ [][phase = "serving" => phase' = "serving"]_vars
    /\ [][(noted.failed > 0 /\ listed # <<>>) => listed' = listed]_vars
    /\ [](\A i \in Slots :
            (AfterFailure(inv[i]) /\ SameCall(inv[i], noted.first)) =>
                /\ inv[i].sent = noted.first.sent
                /\ (inv[i].pc = "done" /\ inv[i].response = noted.first.response) =>
                        inv[i].outcome = noted.first.outcome)

C11_Witness ==
    \E i \in Slots :
        /\ AfterFailure(inv[i])
        /\ inv[i].pc = "done"
        /\ inv[i].name = "retrieve_grid"
        /\ SameCall(inv[i], noted.first)
        /\ inv[i].response = noted.first.response
        /\ inv[i].outcome.kind = "result"
        /\ inv[i].outcome = noted.first.outcome
        /\ phase = "serving"

(***************************************************************************)
(* C12.  list-tools answers with the same catalog every time, whatever      *)
(* invocations have run or are in flight; a list-tools step sends no HTTP   *)
(* request and changes nothing of the server or of any invocation.          *)
(***************************************************************************)
\* a request was handled and no invocation carries its number
ListToolsStep == calls' = calls + 1 /\ \A i \in Slots : inv'[i].id # calls'

C12_CatalogIsStatic ==
    /\ [][listed # <<>> => listed' = listed]_vars
    /\ [][ListToolsStep =>
            /\ listed' # <<>>
            /\ fetches' = fetches
            /\ inv' = inv
            /\ env' = env
            /\ phase' = phase]_vars

\* the third request was a list-tools, handled with one invocation in flight
\* and another finished
C12_Witness ==
    /\ listed # <<>>
    /\ calls = 3
    /\ \E i, j \in Slots :
           /\ inv[i].pc = "awaiting" /\ inv[i].id = 1
           /\ inv[j].pc = "done" /\ inv[j].id = 2

(***************************************************************************)
(* C13.  update_grid with gridId g, name n and metadata m issues            *)
(* PATCH /grids/{g} whose body is exactly {"name":n,"metadata":m}: the      *)
(* gridId is not in the body, a null inside m is sent as null, and without  *)
(* metadata the body holds the name alone.                                  *)
(***************************************************************************)
NameMember(n) == <<Q, "name", Q, ":", Q, n, Q>>

\* the JSON text of the metadata maps the inputs carry
MetadataText(m) ==
    CASE m = Obj(<< <<"a", Num("1")>> >>) -> <<"{", Q, "a", Q, ":", "1", "}">>
      [] m = Obj(<< <<"a", Null>> >>) -> <<"{", Q, "a", Q, ":", "null", "}">>

UpdateGridBody(n, m) ==
    IF m = Undef THEN <<"{">> \o NameMember(n) \o <<"}">>
    ELSE <<"{">> \o NameMember(n) \o <<",", Q, "metadata", Q, ":">>
         \o MetadataText(m) \o <<"}">>

C13_UpdateGridRequest ==
    \A i \in Slots :
        (/\ inv[i].pc # "idle"
         /\ inv[i].name = "update_grid"
         /\ WellFormed("update_grid", inv[i].arguments)) =>
            /\ Len(inv[i].sent) = 1
            /\ inv[i].sent[1].method = "PATCH"
            /\ inv[i].sent[1].url =
                   <<"https://api.gridly.com/v1", "/grids/",
                     Get(inv[i].arguments, "gridId").v>>
            /\ inv[i].sent[1].body =
                   UpdateGridBody(Get(inv[i].arguments, "name").v,
                                  Get(inv[i].arguments, "metadata"))

C13_Witness ==
    \E i \in Slots :
        /\ inv[i].pc = "awaiting"
        /\ inv[i].name = "update_grid"
        /\ Get(inv[i].arguments, "gridId") = Str("g1")
        /\ Get(inv[i].arguments, "metadata") = Obj(<< <<"a", Null>> >>)
        /\ HasKey(inv[i].arguments, "extra")
        /\ inv[i].sent[1].body = UpdateGridBody("Sheet", Obj(<< <<"a", Null>> >>))

(***************************************************************************)
(* C14.  list_databases called without a projectId issues GET /databases    *)
(* with no query at all; called with the number p it issues GET /databases  *)
(* with the single query parameter projectId whose value is p written in    *)
(* decimal digits.                                                          *)
(***************************************************************************)
\* the decimal digits of the numbers the inputs carry
Decimal(p) ==
    CASE p = "7" -> "7"
      [] p = "1e+21" -> "1000000000000000000000"

ProjectIdOf(arguments) ==
    IF arguments = Undef THEN Undef ELSE Get(arguments, "projectId")

C14_ListDatabasesQuery ==
    \A i \in Slots :
        (/\ inv[i].pc # "idle"
         /\ inv[i].name = "list_databases"
         /\ ProjectIdOf(inv[i].arguments).k \in {"undefined", "number"}) =>
            /\ Len(inv[i].sent) = 1
            /\ inv[i].sent[1].method = "GET"
            /\ inv[i].sent[1].url =
                   <<"https://api.gridly.com/v1", "/databases">> \o
                   (IF ProjectIdOf(inv[i].arguments) = Undef THEN <<>>
                    ELSE <<"?", "projectId", "=",
                           Decimal(ProjectIdOf(inv[i].arguments).v)>>)

\* the same with a bag and an everyday number: what the code does satisfy
C14_WithBagAndSmallId ==
    \A i \in Slots :
        (/\ inv[i].pc # "idle"
         /\ inv[i].name = "list_databases"
         /\ inv[i].arguments # Undef
         /\ ProjectIdOf(inv[i].arguments) \in {Undef, Num("7")}) =>
            /\ Len(inv[i].sent) = 1
            /\ inv[i].sent[1].method = "GET"
            /\ inv[i].sent[1].url =
                   <<"https://api.gridly.com/v1", "/databases">> \o
                   (IF ProjectIdOf(inv[i].arguments) = Undef THEN <<>>
                    ELSE <<"?", "projectId", "=", "7">>)

(***************************************************************************)
(* C15.  For list_records and get_record_history an optional query          *)
(* parameter (columnIds, page, sort) is in the URL exactly when the field   *)
(* was supplied, and each structured value (the page object, the sort map,  *)
(* the columnIds array) is written as its JSON text, URL-encoded.           *)
(***************************************************************************)
RECURSIVE Concat(_)
Concat(toks) == IF toks = <<>> THEN "" ELSE Head(toks) \o Concat(Tail(toks))

\* the URL-encoded JSON text of the structured values the inputs carry
EncodedJson(x) ==
    CASE x = Arr(<<Str("c1"), Str("c2")>>) -> "%5B%22c1%22%2C%22c2%22%5D"
      [] x = Obj(<< <<"offset", Num("0")>>, <<"limit", Num("10")>> >>) ->
            "%7B%22offset%22%3A0%2C%22limit%22%3A10%7D"
      [] x = Obj(<< <<"offset", Num("-1")>>, <<"limit", Num("10")>> >>) ->
            "%7B%22offset%22%3A-1%2C%22limit%22%3A10%7D"
      [] x = Obj(<< <<"offset", Num("0")>>, <<"limit", Num("1.5")>> >>) ->
            "%7B%22offset%22%3A0%2C%22limit%22%3A1.5%7D"
      [] x = Obj(<< <<"c1", Str("asc")>> >>) -> "%7B%22c1%22%3A%22asc%22%7D"

\* name=value for every supplied field of the list, in order
RECURSIVE QueryMembers(_, _)
QueryMembers(arguments, fields) ==
    IF fields = <<>> THEN <<>>
    ELSE (IF HasKey(arguments, Head(fields))
          THEN <<Head(fields) \o "=" \o EncodedJson(Get(arguments, Head(fields)))>>
          ELSE <<>>)
         \o QueryMembers(arguments, Tail(fields))

RECURSIVE JoinText(_, _)
JoinText(members, sep) ==
    IF members = <<>> THEN ""
    ELSE IF Len(members) = 1 THEN members[1]
    ELSE members[1] \o sep \o JoinText(Tail(members), sep)

QueryText(arguments, fields) ==
    IF QueryMembers(arguments, fields) = <<>> THEN ""
    ELSE "?" \o JoinText(QueryMembers(arguments, fields), "&")

C15_QueryParameters ==
    \A i \in Slots :
        (/\ inv[i].pc # "idle"
         /\ inv[i].name \in {"list_records", "get_record_history"}
         /\ WellFormed(inv[i].name, inv[i].arguments)) =>
            /\ Len(inv[i].sent) = 1
            /\ Concat(inv[i].sent[1].url) =
                   IF inv[i].name = "list_records"
                   THEN "https://api.gridly.com/v1/views/v1/records"
                        \o QueryText(inv[i].arguments, <<"columnIds", "page", "sort">>)
                   ELSE "https://api.gridly.com/v1/views/v1/records/r1/histories"
                        \o QueryText(inv[i].arguments, <<"page">>)

\* the same without columnIds: page and sort alone
C15_PageAndSortOnly ==
    \A i \in Slots :
        (/\ inv[i].pc # "idle"
         /\ inv[i].name \in {"list_records", "get_record_history"}
         /\ WellFormed(inv[i].name, inv[i].arguments)
         /\ ~HasKey(inv[i].arguments, "columnIds")) =>
            /\ Len(inv[i].sent) = 1
            /\ Concat(inv[i].sent[1].url) =
                   IF inv[i].name = "list_records"
                   THEN "https://api.gridly.com/v1/views/v1/records"
                        \o QueryText(inv[i].arguments, <<"page", "sort">>)
                   ELSE "https://api.gridly.com/v1/views/v1/records/r1/histories"
                        \o QueryText(inv[i].arguments, <<"page">>)

(***************************************************************************)
(* C16.  Every retrieve_grid invocation sends its own GET /grids/{gridId},  *)
(* also when the same grid was retrieved before, and its result is the body *)
(* the remote gave to that request: a second retrieval shows the grid as    *)
(* the remote reports it then, not as it was at the first.                  *)
(***************************************************************************)
\* JSON.stringify(grid, null, 2) of the grids the remote answers with
GridText(name) ==
    <<"{", "\n", "  ", Q, "id", Q, ":", " ", Q, "g1", Q, ",", "\n",
      "  ", Q, "name", Q, ":", " ", Q, name, Q, "\n", "}">>

IsGrid(body) == body.k = "object" /\ HasKey(body, "id") /\ HasKey(body, "name")

\* a retrieve_grid invocation whose bag holds a gridId that is a string
Retrieves(slot) ==
    /\ slot.pc # "idle"
    /\ slot.name = "retrieve_grid"
    /\ slot.arguments.k = "object"
    /\ Get(slot.arguments, "gridId").k = "string"

C16_RetrieveGridIsNotCached ==
    /\ [](\A i \in Slots : Retrieves(inv[i]) =>
            /\ Len(inv[i].sent) = 1
            /\ inv[i].sent[1].method = "GET"
            /\ inv[i].sent[1].url =
                   <<"https://api.gridly.com/v1", "/grids/",
                     Get(inv[i].arguments, "gridId").v>>
            /\ (inv[i].pc = "done" /\ inv[i].response # NoResponse
                 /\ IsGrid(inv[i].response.body)) =>
                    inv[i].outcome =
                        [kind |-> "result", error |-> NoError,
                         text |-> GridText(Get(inv[i].response.body, "name").v)])
    /\ [][\A i \in Slots : (~Retrieves(inv[i]) /\ Retrieves(inv'[i])) =>
                fetches' = fetches + 1]_vars

\* the same grid retrieved a second time after the remote has renamed it
C16_Witness ==
    \E i \in Slots :
        /\ Retrieves(noted.first)
        /\ noted.first.outcome.text = GridText("Sheet")
        /\ Retrieves(inv[i])
        /\ inv[i].id > noted.first.id
        /\ SameCall(inv[i], noted.first)
        /\ inv[i].pc = "done"
        /\ inv[i].outcome.text = GridText("Budget")
        /\ fetches = 2

(***************************************************************************)
(* C17.  A page is accepted only when its offset and its limit are both     *)
(* non-negative integers: a page with a negative or a fractional offset or  *)
(* limit ends the invocation in a validation error and no request is sent.  *)
(***************************************************************************)
\* the numbers of the inputs that are non-negative integers
NonNegativeIntegers == {"0", "7", "10"}

BadPage(arguments) ==
    /\ arguments.k = "object"
    /\ HasKey(arguments, "page")
    /\ Get(arguments, "page").k = "object"
    /\ \E f \in {"offset", "limit"} :
           /\ HasKey(Get(arguments, "page"), f)
           /\ Get(Get(arguments, "page"), f).k = "number"
           /\ Get(Get(arguments, "page"), f).v \notin NonNegativeIntegers

C17_PageIsNonNegativeIntegers ==
    \A i \in Slots :
        (/\ inv[i].pc # "idle"
         /\ inv[i].name \in {"list_records", "get_record_history"}
         /\ BadPage(inv[i].arguments)) =>
            /\ inv[i].pc = "done"
            /\ IsInvalidInput(inv[i].outcome)
            /\ inv[i].sent = <<>>

(***************************************************************************)
(* C18.  create_column accepts a type exactly when it is one of the fifteen *)
(* literals singleLine .. yaml; with any other type the invocation ends in  *)
(* a validation error that names type, and no request is sent.              *)
(***************************************************************************)
IsColumnKind(x) == x.k = "string" /\ x.v \in ColumnKinds

\* the bag is fine apart, possibly, from its type
OtherFieldsFine(arguments) ==
    /\ arguments.k = "object"
    /\ Get(arguments, "viewId").k = "string"
    /\ Get(arguments, "name").k = "string"
    /\ Get(arguments, "id").k \in {"undefined", "string"}

C18_ColumnTypeIsClosedEnumeration ==
    /\ Cardinality(ColumnKinds) = 15
    /\ \A i \in Slots :
        (inv[i].pc # "idle" /\ inv[i].name = "create_column"
         /\ inv[i].arguments.k = "object") =>
            /\ (OtherFieldsFine(inv[i].arguments)
                /\ IsColumnKind(Get(inv[i].arguments, "type"))) =>
                    (Len(inv[i].sent) = 1 /\ ~IsInvalidInput(inv[i].outcome))
            /\ ~IsColumnKind(Get(inv[i].arguments, "type")) =>
                    /\ inv[i].pc = "done"
                    /\ IsInvalidInput(inv[i].outcome)
                    /\ "type" \in ListedFields(inv[i].outcome.error.message)
                    /\ inv[i].sent = <<>>

C18_Witness ==
    \E i \in Slots :
        /\ inv[i].name = "create_column"
        /\ inv[i].pc = "awaiting"
        /\ Get(inv[i].arguments, "type") = Str("yaml")
        /\ Len(inv[i].sent) = 1

C18_WitnessRejected ==
    \E i \in Slots :
        /\ inv[i].name = "create_column"
        /\ inv[i].pc = "done"
        /\ OtherFieldsFine(inv[i].arguments)
        /\ Get(inv[i].arguments, "type") = Str("SingleLine")
        /\ IsInvalidInput(inv[i].outcome)

(***************************************************************************)
(* C19.  With several invocations in flight, under every interleaving: a    *)
(* step of one invocation changes no other invocation; what an invocation   *)
(* was called with and what it sent stay as they are until it returns, and  *)
(* its outcome once it has one; and its request is determined by its own    *)
(* name and arguments, its outcome by these and its own response, whatever  *)
(* the other invocation is doing.                                           *)
(***************************************************************************)
SameRequestAndOutcome(slot, other) ==
    /\ slot.sent = other.sent
    /\ (slot.pc = "done" /\ other.pc = "done" /\ slot.response = other.response) =>
            slot.outcome = other.outcome

C19_InvocationsAreIndependent ==
    /\ [][\A i, j \in Slots : (i # j /\ inv'[i] # inv[i]) => inv'[j] = inv[j]]_vars
    /\ [][\A i \in Slots : (inv[i].pc # "idle" /\ inv'[i].pc # "idle") =>
                /\ inv'[i].id = inv[i].id
                /\ SameCall(inv'[i], inv[i])
                /\ inv'[i].sent = inv[i].sent
                /\ inv[i].pc = "done" => inv'[i] = inv[i]]_vars
    /\ [](\A i \in Slots : inv[i].pc # "idle" =>
            /\ SameCall(inv[i], noted.first) => SameRequestAndOutcome(inv[i], noted.first)
            /\ \A j \in Slots :
                   SameCall(inv[i], inv[j]) => SameRequestAndOutcome(inv[i], inv[j]))

\* an invocation made and finished while an older one is still in flight,
\* with the request and the outcome the same call had when it ran before
C19_Witness ==
    \E i, j \in Slots :
        /\ inv[j].pc = "awaiting"
        /\ inv[j].name = "delete_grid"
        /\ inv[i].pc = "done"
        /\ inv[i].name = "retrieve_grid"
        /\ inv[i].id > inv[j].id
        /\ inv[j].id > noted.first.id
        /\ SameCall(inv[i], noted.first)
        /\ inv[i].response = noted.first.response
        /\ inv[i].outcome.kind = "result"
        /\ inv[i].outcome = noted.first.outcome

(***************************************************************************)
(* C20.  The credential and the base address are fixed at startup: no       *)
(* operation changes the credential, and every request sent goes to the     *)
(* base address https://api.gridly.com/v1 with a Content-Type header and    *)
(* an Authorization header made of that startup credential.                 *)
(***************************************************************************)
CarriesCredential(request) ==
    /\ Head(request.url) = "https://api.gridly.com/v1"
    /\ request.headers =
           << <<"Content-Type", "application/json">>,
              <<"Authorization", "ApiKey " \o env.v>> >>

C20_CredentialAndBaseFixed ==
    /\ [](\A i \in Slots : \A j \in 1..Len(inv[i].sent) :
              env.k = "string" /\ CarriesCredential(inv[i].sent[j]))
    /\ [][env' = env]_vars

C20_Witness ==
    \E i \in Slots :
        /\ inv[i].pc = "done"
        /\ calls = MaxCalls
        /\ fetches = MaxCalls
        /\ inv[i].name = "add_records"
        /\ inv[i].sent[1].headers[2] = <<"Authorization", "ApiKey secret">>

(***************************************************************************)
(* C21.  When its pending request resolves or fails, an invocation          *)
(* eventually ends, with exactly one outcome: a text result or an error,    *)
(* which then stays as it is.  A pending invocation ends in no other way:   *)
(* it leaves its wait only with a response or with the error of the failed  *)
(* request, so one whose request never settles never completes.             *)
(***************************************************************************)
OneOutcome(outcome) ==
    \/ outcome.kind = "result" /\ outcome.error = NoError /\ outcome.text # <<>>
    \/ outcome.kind = "error" /\ outcome.error # NoError /\ outcome.text = <<>>

C21_InvocationEndsWhenRequestSettles ==
    /\ (inv[1].pc # "idle") ~> (inv[1].pc = "done")
    /\ [](inv[1].pc = "done" => OneOutcome(inv[1].outcome))
    /\ [](inv[1].pc = "awaiting" => inv[1].outcome = NoOutcome)
    /\ [][(inv[1].pc = "awaiting" /\ inv'[1].pc # "awaiting") =>
            /\ inv'[1].pc = "done"
            /\ \/ inv'[1].response \in SessionResponses
               \/ inv'[1].response = NoResponse
                  /\ inv'[1].outcome = Failure(TransportError)]_vars

C21_Witness ==
    /\ inv[1].pc = "done"
    /\ inv[1].name = "retrieve_grid"
    /\ inv[1].response \in SessionResponses
    /\ inv[1].outcome.kind = "result"
    /\ calls = 2

(***************************************************************************)
(* C22.  The names of the list-tools catalog are the names the call-tool    *)
(* switch handles, neither more nor fewer, and no name is in the catalog    *)
(* twice; this holds of the server file and of its earlier version.  What   *)
(* list-tools returns carries these names, and an invocation ends as an     *)
(* unknown tool exactly when its name is not among them.                    *)
(***************************************************************************)
NamesOf(catalog) == [j \in 1..Len(catalog) |-> catalog[j].name]

NoDuplicates(names) ==
    \A j, k \in 1..Len(names) : names[j] = names[k] => j = k

C22_CatalogIsDispatchTable ==
    /\ NoDuplicates(NamesOf(ListToolsHandler))
    /\ Range(NamesOf(ListToolsHandler)) = Range(CaseLabels)
    /\ NoDuplicates(OlderCatalogNames)
    /\ Range(OlderCatalogNames) = Range(OlderCaseLabels)
    /\ listed # <<>> =>
           (NoDuplicates(NamesOf(listed)) /\ Range(NamesOf(listed)) = Range(CaseLabels))
    /\ \A i \in Slots : inv[i].pc # "idle" =>
           (inv[i].name \in Range(CaseLabels) <=> ~IsUnknownTool(inv[i].outcome))

C22_Witness ==
    /\ listed # <<>>
    /\ Len(listed) = Len(CaseLabels)
    /\ \E i \in Slots :
           /\ inv[i].pc = "awaiting"
           /\ inv[i].name = "get_record_history"

(***************************************************************************)
(* C23.  When the request of a delete-style tool fails at transport level   *)
(* the invocation ends in that error, not in a "Failed to delete" sentence; *)
(* a "Failed to delete" sentence is the result only of a delete-style tool  *)
(* that received a response whose status is not 204.                        *)
(***************************************************************************)
FailedToDelete ==
    {<<"Failed to delete grid.">>, <<"Failed to delete column.">>,
     <<"Failed to delete dependency.">>, <<"Failed to delete record(s).">>}

C23_TransportFailureIsNotFailedToDelete ==
    \A i \in Slots : inv[i].pc = "done" =>
        /\ (inv[i].name \in DeleteTools /\ inv[i].sent # <<>>
             /\ inv[i].response = NoResponse) =>
                /\ inv[i].outcome.kind = "error"
                /\ inv[i].outcome.error.class = "TypeError"
                /\ inv[i].outcome.error.message = <<"fetch failed">>
                /\ inv[i].outcome.text \notin FailedToDelete
        /\ inv[i].outcome.text \in FailedToDelete =>
                /\ inv[i].name \in DeleteTools
                /\ inv[i].outcome.kind = "result"
                /\ inv[i].response # NoResponse
                /\ inv[i].response.status # 204

C23_Witness ==
    \E i \in Slots :
        /\ inv[i].pc = "done"
        /\ inv[i].name = "delete_records"
        /\ Len(inv[i].sent) = 1
        /\ inv[i].response = NoResponse
        /\ inv[i].outcome.kind = "error"

C23_WitnessFailedToDelete ==
    \E i \in Slots :
        /\ inv[i].pc = "done"
        /\ inv[i].name = "delete_records"
        /\ inv[i].response.status = 500
        /\ inv[i].outcome.text = <<"Failed to delete record(s).">>

(***************************************************************************)
(* C24.  A bag that carries a field the tool's schema does not declare is   *)
(* not rejected for it: the invocation goes the way it goes without the     *)
(* field (one request when the declared fields are valid, otherwise an      *)
(* error that does not name the field), and neither the field's name nor    *)
(* its value is in the URL or the body of the request.                      *)
(***************************************************************************)
Without(bag, field) == Obj(SelectSeq(bag.v, LAMBDA p : p[1] # field))

CarriesUndeclared(slot) ==
    /\ slot.pc # "idle"
    /\ slot.name \in ToolNames
    /\ slot.arguments.k = "object"
    /\ HasKey(slot.arguments, "extra")
    /\ "extra" \notin DeclaredFields(slot.name)

C24_UndeclaredFieldsAreDropped ==
    \A i \in Slots : CarriesUndeclared(inv[i]) =>
        /\ inv[i].step = Dispatch(inv[i].name, Without(inv[i].arguments, "extra"))
        /\ WellFormed(inv[i].name, Without(inv[i].arguments, "extra")) =>
               (Len(inv[i].sent) = 1 /\ ~IsInvalidInput(inv[i].outcome))
        /\ IsInvalidInput(inv[i].outcome) =>
               /\ "extra" \notin ListedFields(inv[i].outcome.error.message)
               /\ "unrecognized_keys" \notin Range(inv[i].outcome.error.message)
        /\ \A j \in 1..Len(inv[i].sent) :
               {"extra", "x"} \cap (Range(inv[i].sent[j].url) \cup Range(inv[i].sent[j].body))
                   = {}

C24_Witness ==
    \E i \in Slots :
        /\ CarriesUndeclared(inv[i])
        /\ inv[i].name = "create_view"
        /\ inv[i].pc = "done"
        /\ inv[i].outcome.kind = "result"
        /\ inv[i].sent[1].body # <<>>

====
